---- MODULE Spec2Model ----
(***************************************************************************)
(* CanvasWithHistory (src/src/canvas.ts, the class of lines 223-526): a    *)
(* fabric Canvas that keeps a linear undo/redo history of serialized       *)
(* snapshots.  The document is the canvas' object list; a snapshot token   *)
(* is JSON.stringify(toDatalessJSON()).  Handlers run synchronously inside *)
(* the canvas call that raises their notification; undo()/redo() are async *)
(* and resume on the microtask queue once loadFromJSON settles.            *)
(***************************************************************************)
EXTENDS Integers, Sequences, FiniteSets, TLC

\* ---------------------------------------------------------------- bounds
MaxObjs == 2        \* objects on the canvas at once
MaxHist == 2        \* entries on the undo stack
MaxInflight == 2    \* undo()/redo() calls whose promise has not resolved
MaxTrip == 4        \* entries on the undo stack in the round-trip scenario

\* Serializable property valuations of an object (position, size, ...).
Props == {"p", "q"}
\* Object identities (JS references); enough for the canvas plus stale
\* references still held by a selection.
Ids == 1..(2 * MaxObjs)

VARIABLES
    doc,                 \* canvas._objects: sequence of [id, val]
    active,              \* canvas.getActiveObjects(): sequence of ids
    historyUndo,         \* _historyUndo
    historyRedo,         \* _historyRedo
    selectedObjects,     \* _selectedObjects: sequence of ids
    isMultiSelection,    \* _isMultiSelection
    historyIsMoving,     \* _historyIsMoving
    historyProcessing,   \* _historyProcessing
    historyCurrentState, \* _historyCurrentState
    listeners,           \* handlers registered on the canvas: <<event, function identity>>
    binds,               \* how many times the handlers were .bind()-ed so far
    disposed,            \* dispose() was called
    loading,             \* undo()/redo() calls awaiting loadFromJSON
    microtasks,          \* undo()/redo() continuations queued as microtasks (FIFO)
    fresh,               \* TRUE until the first step after construction
    drag,                \* the run of object:moving notifications in progress
    rt                   \* progress of the undo/redo round-trip scenario

vars == <<doc, active, historyUndo, historyRedo, selectedObjects, isMultiSelection,
          historyIsMoving, historyProcessing, historyCurrentState, listeners, binds,
          disposed, loading, microtasks, fresh, drag, rt>>

\* ---------------------------------------------------------------- helpers
Last(q) == q[Len(q)]
Front(q) == SubSeq(q, 1, Len(q) - 1)
InSeq(q, x) == \E i \in 1..Len(q) : q[i] = x
IdsOf(d) == [i \in 1..Len(d) |-> d[i].id]
Without(d, o) == SelectSeq(d, LAMBDA x : x.id # o)
Range(q) == {q[i] : i \in 1..Len(q)}

RECURSIVE SortedSeq(_)
SortedSeq(S) ==
    IF S = {} THEN <<>>
    ELSE LET m == CHOOSE x \in S : \A y \in S : x <= y
         IN <<m>> \o SortedSeq(S \ {m})

\* What array.pop() / array[-1] give on an empty array.
Undefined == <<"undefined">>
\* The absence of a drag / of a recorded pre-state.
NoDrag == [on |-> FALSE]
NoPre == [undo |-> <<>>, redo |-> <<>>, marker |-> <<>>, token |-> <<>>]
\* The round-trip scenario: its phase, the undo() calls not yet redone, and
\* the stacks and marker at the first undo().
NoTrip == [phase |-> "off", k |-> 0, undo0 |-> <<>>, redo0 |-> <<>>, marker0 |-> <<>>]

Ev(name, arg) == [name |-> name, arg |-> arg]
HistoryEvents == {"history:append", "history:undo", "history:redo", "history:cleared"}

\* The program state as one record, so that handlers compose as functions.
\* trace collects what an operation raises and emits while it runs: the
\* notifications of the canvas and the history:* events, in order.
State ==
    [doc |-> doc, active |-> active, historyUndo |-> historyUndo,
     historyRedo |-> historyRedo, selectedObjects |-> selectedObjects,
     isMultiSelection |-> isMultiSelection, historyIsMoving |-> historyIsMoving,
     historyProcessing |-> historyProcessing,
     historyCurrentState |-> historyCurrentState, listeners |-> listeners,
     binds |-> binds, disposed |-> disposed, loading |-> loading,
     microtasks |-> microtasks, trace |-> <<>>]

\* ------------------------------------------------------------ serialization
\* canvas.toDatalessJSON(): the objects' properties in z-order; identities are
\* not serialized.
toDatalessJSON(d) == [objects |-> [i \in 1..Len(d) |-> d[i].val]]
JSONstringify(j) == j.objects
JSONparse(t) == [objects |-> t]

historyCurrent(s) == JSONstringify(toDatalessJSON(s.doc))

\* Identities referenced by the canvas or by a selection.
Refs(s) == Range(IdsOf(s.doc)) \cup Range(s.active) \cup Range(s.selectedObjects)

\* enlivenObjects(): new object instances carrying the serialized properties.
Enliven(objects, s) ==
    LET free == SortedSeq(Ids \ Refs(s))
    IN [i \in 1..Len(objects) |-> [id |-> free[i], val |-> objects[i]]]

\* --------------------------------------------------- canvas and its handlers
RECURSIVE Fire(_, _, _), CanvasRemove(_, _), FireAdded(_, _),
          HandleObjectRemoved(_, _), HistorySaveAction(_)

\* object:removed bound straight to the capture, as before batching existed
\* (canvas.ts:35).
HandleObjectRemoved_PassThrough(s, target) == HistorySaveAction(s)

\* A capture that keeps two entries at most and drops the oldest beyond that.
HistorySaveAction_DropsOldest(s) ==
    IF s.historyProcessing \/ s.historyIsMoving THEN s
    ELSE LET latestJSON == historyCurrent(s)
             pushed == Append(s.historyUndo, latestJSON)
         IN IF s.historyCurrentState = latestJSON THEN s
            ELSE Fire([s EXCEPT !.historyUndo = IF Len(pushed) > 2 THEN Tail(pushed) ELSE pushed,
                                !.historyCurrentState = latestJSON,
                                !.historyRedo = <<>>], "history:append", latestJSON)

\* A capture that keeps the redo stack.
HistorySaveAction_KeepsRedo(s) ==
    IF s.historyProcessing \/ s.historyIsMoving THEN s
    ELSE LET latestJSON == JSONstringify(toDatalessJSON(s.doc))
         IN IF s.historyCurrentState = latestJSON THEN s
            ELSE Fire([s EXCEPT !.historyUndo = Append(@, latestJSON),
                                !.historyCurrentState = latestJSON],
                      "history:append", latestJSON)

\* A capture that emits nothing (canvas.ts:78-85).
HistorySaveAction_Silent(s) ==
    IF s.historyProcessing \/ s.historyIsMoving THEN s
    ELSE LET latestJSON == JSONstringify(toDatalessJSON(s.doc))
         IN IF s.historyCurrentState = latestJSON THEN s
            ELSE [s EXCEPT !.historyUndo = Append(@, latestJSON),
                           !.historyCurrentState = latestJSON,
                           !.historyRedo = <<>>]

\* A capture without the comparison against the marker.
HistorySaveAction_NoDedup(s) ==
    IF s.historyProcessing \/ s.historyIsMoving THEN s
    ELSE LET latestJSON == JSONstringify(toDatalessJSON(s.doc))
         IN Fire([s EXCEPT !.historyUndo = Append(@, latestJSON),
                           !.historyCurrentState = latestJSON,
                           !.historyRedo = <<>>],
                 "history:append", latestJSON)

\* A capture that does not look at the replay flag.
HistorySaveAction_IgnoresReplay(s) ==
    IF s.historyIsMoving THEN s
    ELSE LET latestJSON == JSONstringify(toDatalessJSON(s.doc))
         IN IF s.historyCurrentState = latestJSON THEN s
            ELSE Fire([s EXCEPT !.historyUndo = Append(@, latestJSON),
                                !.historyCurrentState = latestJSON,
                                !.historyRedo = <<>>],
                      "history:append", latestJSON)

Log(s, name, arg) == [s EXCEPT !.trace = Append(@, Ev(name, arg))]

Bound(s, name) == \E l \in s.listeners : l[1] = name

HandleSelectionCreated(s, selected) ==
    IF Len(selected) > 1
    THEN [s EXCEPT !.selectedObjects = selected, !.isMultiSelection = TRUE]
    ELSE s

HandleSelectionUpdated(s) ==
    LET allSelectedObjects == s.active
    IN [s EXCEPT !.selectedObjects = allSelectedObjects,
                 !.isMultiSelection = Len(allSelectedObjects) > 1]

\* A selection:cleared handler that also ends the transient operation.
HandleSelectionCleared_EndsDrag(s) ==
    [s EXCEPT !.selectedObjects = <<>>, !.isMultiSelection = FALSE,
              !.historyIsMoving = FALSE]

HandleSelectionCleared(s) ==
    [s EXCEPT !.selectedObjects = <<>>, !.isMultiSelection = FALSE]

HandleObjectMoving(s) == [s EXCEPT !.historyIsMoving = TRUE]

\* A commit that captures without ending the transient operation first.
HandleObjectModified_KeepsFlag(s) == HistorySaveAction(s)

HandleObjectModified(s) == HistorySaveAction([s EXCEPT !.historyIsMoving = FALSE])

\* canvas.fire(name, arg): the notification is raised, then the handler bound
\* to it (if any) runs synchronously.
Fire(s, name, arg) ==
    LET s1 == Log(s, name, IF name \in HistoryEvents THEN arg ELSE <<>>)
    IN IF ~Bound(s1, name) THEN s1
       ELSE CASE name \in {"path:created", "erasing:end", "object:added"} ->
                    HistorySaveAction(s1)
              [] name = "object:removed" -> HandleObjectRemoved(s1, arg)
              [] name = "object:moving" -> HandleObjectMoving(s1)
              [] name = "object:modified" -> HandleObjectModified(s1)
              [] name = "selection:created" -> HandleSelectionCreated(s1, arg)
              [] name = "selection:updated" -> HandleSelectionUpdated(s1)
              [] name = "selection:cleared" -> HandleSelectionCleared(s1)
              [] OTHER -> s1

HistorySaveAction(s) ==
    IF s.historyProcessing \/ s.historyIsMoving THEN s
    ELSE LET latestJSON == historyCurrent(s)
         IN IF s.historyCurrentState = latestJSON THEN s
            ELSE Fire([s EXCEPT !.historyUndo = Append(@, latestJSON),
                                !.historyCurrentState = latestJSON,
                                !.historyRedo = <<>>],
                      "history:append", latestJSON)

\* canvas.discardActiveObject()
DiscardActiveObject(s) ==
    IF s.active = <<>> THEN s
    ELSE Fire([s EXCEPT !.active = <<>>], "selection:cleared", <<>>)

\* Canvas._onObjectRemoved: removing the single active object deselects it.
OnObjectRemoved(s, o) ==
    LET s1 == IF s.active = <<o>>
              THEN Fire([s EXCEPT !.active = <<>>], "selection:cleared", <<>>)
              ELSE s
    IN Fire(s1, "object:removed", o)

\* canvas.remove(...objs): each object still on the canvas is spliced out and
\* its object:removed raised before the next one is looked at.
CanvasRemove(s, objs) ==
    IF objs = <<>> THEN s
    ELSE LET o == Head(objs)
         IN IF ~InSeq(IdsOf(s.doc), o) THEN CanvasRemove(s, Tail(objs))
            ELSE CanvasRemove(OnObjectRemoved([s EXCEPT !.doc = Without(@, o)], o),
                              Tail(objs))

\* A compound removal that is not saved once it is done.
HandleObjectRemoved_BatchUnsaved(s, target) ==
    IF /\ ~s.historyProcessing
       /\ s.isMultiSelection
       /\ InSeq(s.selectedObjects, target)
    THEN LET s1 == [s EXCEPT !.historyProcessing = TRUE, !.selectedObjects = <<>>]
             s3 == CanvasRemove(s1, s.selectedObjects)
         IN [DiscardActiveObject(s3) EXCEPT !.historyProcessing = FALSE]
    ELSE HistorySaveAction(s)

\* A batch branch that does not raise the processing flag around its removal.
HandleObjectRemoved_FlagUnset(s, target) ==
    IF /\ ~s.historyProcessing
       /\ s.isMultiSelection
       /\ InSeq(s.selectedObjects, target)
    THEN LET objectsToRemove == s.selectedObjects
             s3 == CanvasRemove([s EXCEPT !.selectedObjects = <<>>], objectsToRemove)
         IN HistorySaveAction(DiscardActiveObject(s3))
    ELSE HistorySaveAction(s)

\* A batch branch that takes the notified object only, not the pending set.
HandleObjectRemoved_TargetOnly(s, target) ==
    IF /\ ~s.historyProcessing
       /\ s.isMultiSelection
       /\ InSeq(s.selectedObjects, target)
    THEN LET s1 == [s EXCEPT !.historyProcessing = TRUE, !.selectedObjects = <<>>]
             s3 == CanvasRemove(s1, <<target>>)
             s4 == DiscardActiveObject(s3)
         IN HistorySaveAction([s4 EXCEPT !.historyProcessing = FALSE])
    ELSE HistorySaveAction(s)

HandleObjectRemoved(s, target) ==
    IF /\ ~s.historyProcessing
       /\ s.isMultiSelection
       /\ InSeq(s.selectedObjects, target)
    THEN LET s1 == [s EXCEPT !.historyProcessing = TRUE]
             objectsToRemove == s1.selectedObjects
             s2 == [s1 EXCEPT !.selectedObjects = <<>>]
             s3 == CanvasRemove(s2, objectsToRemove)
             s4 == DiscardActiveObject(s3)
             s5 == [s4 EXCEPT !.historyProcessing = FALSE]
         IN HistorySaveAction(s5)
    ELSE HistorySaveAction(s)

FireAdded(s, objs) ==
    IF objs = <<>> THEN s
    ELSE FireAdded(Fire(s, "object:added", Head(objs).id), Tail(objs))

\* canvas.add(...objs): all objects are pushed, then object:added is raised
\* for each.
CanvasAdd(s, objs) == FireAdded([s EXCEPT !.doc = @ \o objs], objs)

\* canvas.clear(): discards the active object, removes every object, raises
\* canvas:cleared.
CanvasClear(s) ==
    LET s1 == DiscardActiveObject(s)
        s2 == CanvasRemove(s1, IdsOf(s1.doc))
    IN Fire(s2, "canvas:cleared", <<>>)

\* canvas.setActiveObject(...) as the pointer does it.
SetActive(s, sel) ==
    LET s1 == [s EXCEPT !.active = sel]
    IN IF s.active = <<>> THEN Fire(s1, "selection:created", sel)
       ELSE Fire(s1, "selection:updated", sel)

\* ---------------------------------------------------------------- history
HandlerEvents ==
    {"path:created", "erasing:end", "object:added", "object:removed",
     "object:moving", "object:modified", "selection:created",
     "selection:updated", "selection:cleared"}

\* this.on({name: this._handler.bind(this), ...}): every .bind() makes a new
\* function, identified here by the number of the bind round.
BindEventListeners(s) ==
    LET b == s.binds + 1
    IN [s EXCEPT !.binds = b,
                 !.listeners = @ \cup {<<e, b>> : e \in HandlerEvents}]

\* A construction that saves no initial state.
HistorySaveInitialState_Skipped(s) == s

HistorySaveInitialState(s) ==
    LET initialState == historyCurrent(s)
    IN [s EXCEPT !.historyUndo = <<initialState>>,
                 !.historyCurrentState = initialState]

Constructor ==
    LET s0 == [doc |-> <<>>, active |-> <<>>, historyUndo |-> <<>>,
               historyRedo |-> <<>>, selectedObjects |-> <<>>,
               isMultiSelection |-> FALSE, historyIsMoving |-> FALSE,
               historyProcessing |-> FALSE,
               historyCurrentState |-> JSONstringify(toDatalessJSON(<<>>)),
               listeners |-> {}, binds |-> 0, disposed |-> FALSE,
               loading |-> <<>>, microtasks |-> <<>>, trace |-> <<>>]
    IN HistorySaveInitialState(BindEventListeners(s0))

canUndo(s) == Len(s.historyUndo) > 1
canRedo(s) == Len(s.historyRedo) > 0

\* ------------------------------------------------------------ undo / redo
\* array.pop() and array[array.length - 1]
Pop(q) == IF q = <<>> THEN Undefined ELSE Last(q)

\* What a call finds when it is made: the stacks, the marker and the
\* document's token.
Pre(s) ==
    [undo |-> s.historyUndo, redo |-> s.historyRedo,
     marker |-> s.historyCurrentState, token |-> historyCurrent(s)]

\* A pending undo()/redo(): the token being loaded, the token it popped, where
\* its async function stands, and (for the properties) whether anything else
\* ran since it was called and the stacks it was called on.
Call(s, op, popped, historyState, pre) ==
    LET alone == s.loading = <<>> /\ s.microtasks = <<>>
    IN [op |-> op, popped |-> popped, state |-> historyState, phase |-> "loading",
        ok |-> TRUE, clean |-> alone, pre |-> IF alone THEN pre ELSE NoPre]

\* _loadFromHistory up to its await: clear(), discardActiveObject(), and
\* loadFromJSON(JSON.parse(historyState)) started.
LoadFromHistory(s, op, popped, historyState, pre) ==
    LET s1 == CanvasClear(s)
        s2 == DiscardActiveObject(s1)
    IN [s2 EXCEPT !.loading = Append(@, Call(s, op, popped, historyState, pre))]

\* A .then() that clears and adds nothing back.
LoadFromJSONThen_NoAdd(s, json) == CanvasClear(s)

\* The .then() of loadFromJSON: clear(), then add(...enlived).
LoadFromJSONThen(s, json) ==
    LET s1 == CanvasClear(s)
    IN CanvasAdd(s1, Enliven(json.objects, s1))

\* An undo() that restores the previous state and leaves the marker to be
\* set by a later capture.
UndoBody_MarkerKept(s) ==
    LET pre == Pre(s)
        s1 == [s EXCEPT !.historyProcessing = TRUE]
        poppedState == Pop(s1.historyUndo)
        s3 == [s1 EXCEPT !.historyUndo = Front(@),
                         !.historyRedo = Append(@, poppedState)]
    IN LoadFromHistory(s3, "undo", poppedState, Pop(s3.historyUndo), pre)

\* A restore whose flag is cleared after the try block only, without finally.
LoadFromHistoryResume_NoFinally(s, c) ==
    IF c.ok THEN [s EXCEPT !.historyProcessing = FALSE]
    ELSE Log(s, "console.error", <<>>)

\* _loadFromHistory after its await: requestRenderAll() or the catch, then the
\* finally.
LoadFromHistoryResume(s, c) ==
    LET s1 == IF c.ok THEN s ELSE Log(s, "console.error", <<>>)
    IN [s1 EXCEPT !.historyProcessing = FALSE]

\* An undo() that throws the popped token away instead of keeping it for
\* redo().
UndoBody_DropsPopped(s) ==
    LET pre == Pre(s)
        s1 == [s EXCEPT !.historyProcessing = TRUE]
        poppedState == Pop(s1.historyUndo)
        s3 == [s1 EXCEPT !.historyUndo = Front(@)]
        previousState == Pop(s3.historyUndo)
    IN LoadFromHistory([s3 EXCEPT !.historyCurrentState = previousState],
                       "undo", poppedState, previousState, pre)

\* An undo() that reloads the token it popped.
UndoBody_LoadsPopped(s) ==
    LET pre == Pre(s)
        s1 == [s EXCEPT !.historyProcessing = TRUE]
        poppedState == Pop(s1.historyUndo)
        s3 == [s1 EXCEPT !.historyUndo = Front(@),
                         !.historyRedo = Append(@, poppedState)]
        previousState == Pop(s3.historyUndo)
    IN LoadFromHistory([s3 EXCEPT !.historyCurrentState = previousState],
                       "undo", poppedState, poppedState, pre)

UndoBody(s) ==
    LET pre == Pre(s)
        s1 == [s EXCEPT !.historyProcessing = TRUE]
        poppedState == Pop(s1.historyUndo)
        s2 == [s1 EXCEPT !.historyUndo = Front(@)]
    IN IF poppedState = Undefined THEN s1
       ELSE LET s3 == [s2 EXCEPT !.historyRedo = Append(@, poppedState)]
                previousState == Pop(s3.historyUndo)
            IN IF previousState = Undefined THEN s3
               ELSE LoadFromHistory(
                        [s3 EXCEPT !.historyCurrentState = previousState],
                        "undo", poppedState, previousState, pre)

\* The guard of the class' first iteration (canvas.ts:92).
Undo_GuardEmpty(s) == IF Len(s.historyUndo) = 0 THEN s ELSE UndoBody(s)

\* An undo() that raises the replay flag before it looks at the stack.
Undo_FlagFirst(s) ==
    IF Len(s.historyUndo) <= 1 THEN [s EXCEPT !.historyProcessing = TRUE]
    ELSE UndoBody(s)

Undo(s) == IF Len(s.historyUndo) <= 1 THEN s ELSE UndoBody(s)

\* A redo() that pushes the token back without moving the marker.
RedoBody_StaleMarker(s) ==
    LET pre == Pre(s)
        s1 == [s EXCEPT !.historyProcessing = TRUE]
        poppedState == Pop(s1.historyRedo)
        s2 == [s1 EXCEPT !.historyRedo = Front(@)]
    IN IF poppedState = Undefined THEN s1
       ELSE LoadFromHistory([s2 EXCEPT !.historyUndo = Append(@, poppedState)],
                            "redo", poppedState, poppedState, pre)

\* A redo() that reads the top of the redo stack and leaves it there.
RedoBody_Peeks(s) ==
    LET pre == Pre(s)
        s1 == [s EXCEPT !.historyProcessing = TRUE]
        poppedState == Pop(s1.historyRedo)
    IN LoadFromHistory(
           [s1 EXCEPT !.historyUndo = Append(@, poppedState),
                      !.historyCurrentState = poppedState],
           "redo", poppedState, poppedState, pre)

RedoBody(s) ==
    LET pre == Pre(s)
        s1 == [s EXCEPT !.historyProcessing = TRUE]
        poppedState == Pop(s1.historyRedo)
        s2 == [s1 EXCEPT !.historyRedo = Front(@)]
    IN IF poppedState = Undefined THEN s1
       ELSE LoadFromHistory(
                [s2 EXCEPT !.historyUndo = Append(@, poppedState),
                           !.historyCurrentState = poppedState],
                "redo", poppedState, poppedState, pre)

\* A redo() that raises the replay flag before it looks at the stack.
Redo_FlagFirst(s) ==
    IF Len(s.historyRedo) = 0 THEN [s EXCEPT !.historyProcessing = TRUE]
    ELSE RedoBody(s)

Redo(s) == IF Len(s.historyRedo) = 0 THEN s ELSE RedoBody(s)

\* A restore without the catch block: the rejection of loadFromJSON passes
\* through the finally and rejects undo()/redo(), which fire nothing.
AwaitLoadFromHistory_Rejects(s, c) ==
    IF c.ok
    THEN [LoadFromHistoryResume(s, c) EXCEPT !.microtasks =
              Append(@, [c EXCEPT !.phase = "fire"])]
    ELSE [s EXCEPT !.historyProcessing = FALSE]

\* `await this._loadFromHistory(...)` in undo()/redo(): the promise of
\* _loadFromHistory is fulfilled once its catch and finally have run, and the
\* caller goes on to its last statement.
AwaitLoadFromHistory(s, c) ==
    [LoadFromHistoryResume(s, c) EXCEPT !.microtasks =
         Append(@, [c EXCEPT !.phase = "fire"])]

\* A completion event that carries the token restored instead of the one
\* popped.
FireDone_RestoredToken(s, c) ==
    Fire(s, IF c.op = "undo" THEN "history:undo" ELSE "history:redo", c.state)

\* The end of undo()/redo(): this.fire("history:undo", {lastUndoAction}).
FireDone(s, c) ==
    Fire(s, IF c.op = "undo" THEN "history:undo" ELSE "history:redo", c.popped)

\* A clearHistory() that empties both stacks (canvas.ts:161-164).
ClearHistory_Empties(s) == [s EXCEPT !.historyUndo = <<>>, !.historyRedo = <<>>]

ClearHistory(s) ==
    Fire([HistorySaveInitialState(s) EXCEPT !.historyRedo = <<>>],
         "history:cleared", <<>>)

\* A clearCanvas() that clears under the flag and captures nothing afterwards.
ClearCanvas_Unsaved(s) ==
    [CanvasClear([s EXCEPT !.historyProcessing = TRUE]) EXCEPT !.historyProcessing = FALSE]

\* A clearCanvas() that does not raise the processing flag around clear().
ClearCanvas_Unguarded(s) == HistorySaveAction(CanvasClear(s))

ClearCanvas(s) ==
    LET s1 == [s EXCEPT !.historyProcessing = TRUE]
        s2 == CanvasClear(s1)
        s3 == [s2 EXCEPT !.historyProcessing = FALSE]
    IN HistorySaveAction(s3)

\* this.off({name: this._handler.bind(this), ...}): off() removes the function
\* it is given, and each .bind() here is a new one.
DisposeEventListeners(s) ==
    LET b == s.binds + 1
    IN [s EXCEPT !.binds = b,
                 !.listeners = @ \ {<<e, b>> : e \in HandlerEvents}]

\* super.dispose(): the canvas is destroyed, its objects dropped unnotified.
CanvasDispose(s) == [s EXCEPT !.doc = <<>>, !.active = <<>>, !.disposed = TRUE]

Dispose(s) == CanvasDispose(ClearHistory(DisposeEventListeners(s)))

\* ---------------------------------------------------------------- steps
\* Another step ran while these calls were in flight.
Dirty(q) == [i \in 1..Len(q) |-> [q[i] EXCEPT !.clean = FALSE, !.pre = NoPre]]
Interleave(s) == [s EXCEPT !.loading = Dirty(@), !.microtasks = Dirty(@)]

\* Object identities are opaque references: a state is kept up to their
\* renaming, the canvas' objects numbered in z-order and the references to
\* objects no longer on it after them.
Canon(s) ==
    LET onCanvas == IdsOf(s.doc)
        stale == SortedSeq((Range(s.active) \cup Range(s.selectedObjects))
                           \ Range(onCanvas))
        order == onCanvas \o stale
        name(o) == CHOOSE i \in 1..Len(order) : order[i] = o
    IN [s EXCEPT !.doc = [i \in 1..Len(@) |-> [@[i] EXCEPT !.id = i]],
                 !.active = [i \in 1..Len(@) |-> name(@[i])],
                 !.selectedObjects = [i \in 1..Len(@) |-> name(@[i])]]

Commit(t) ==
    LET s == Canon(t)
    IN
    /\ Len(s.historyUndo) <= (IF rt.phase = "off" THEN MaxHist ELSE MaxTrip)
    /\ doc' = s.doc
    /\ active' = s.active
    /\ historyUndo' = s.historyUndo
    /\ historyRedo' = s.historyRedo
    /\ selectedObjects' = s.selectedObjects
    /\ isMultiSelection' = s.isMultiSelection
    /\ historyIsMoving' = s.historyIsMoving
    /\ historyProcessing' = s.historyProcessing
    /\ historyCurrentState' = s.historyCurrentState
    /\ listeners' = s.listeners
    /\ binds' = s.binds
    /\ disposed' = s.disposed
    /\ loading' = s.loading
    /\ microtasks' = s.microtasks
    /\ fresh' = FALSE

InFlight == Len(loading) + Len(microtasks)
\* No undo()/redo() is pending.
Idle == InFlight = 0

\* A step of the host application or the user: a task of its own, taken when
\* no microtask is queued.
Env(s) ==
    /\ microtasks = <<>>
    /\ Commit(s)

Appends(tr) == Len(SelectSeq(tr, LAMBDA e : e.name = "history:append"))
Raised(tr, name) == Len(SelectSeq(tr, LAMBDA e : e.name = name))

NewObject(s, v) == [id |-> Head(SortedSeq(Ids \ Refs(s))), val |-> v]
SetVal(d, o, v) == [i \in 1..Len(d) |-> IF d[i].id = o THEN [d[i] EXCEPT !.val = v] ELSE d[i]]
ValOf(d, o) == (CHOOSE x \in Range(d) : x.id = o).val
\* The objects of S in z-order.
Pick(d, S) == SelectSeq(IdsOf(d), LAMBDA i : i \in S)
DocIds == Range(IdsOf(doc))

\* canvas.add(obj)
AddResult(v) == CanvasAdd(Interleave(State), <<NewObject(State, v)>>)
Add(v) ==
    /\ InFlight <= 1
    /\ ~historyIsMoving
    /\ Len(doc) < MaxObjs
    /\ Env(AddResult(v))
    /\ drag' = NoDrag

\* Free drawing: the brush adds the path, then raises path:created.
PathCreatedResult(v) == Fire(AddResult(v), "path:created", <<>>)
PathCreated(v) ==
    /\ ~historyIsMoving
    /\ ~disposed
    /\ Idle
    /\ Len(doc) < MaxObjs
    /\ Env(PathCreatedResult(v))
    /\ drag' = NoDrag

\* The eraser changes an object, then raises erasing:end.
ErasingEndResult(o, v) ==
    Fire([Interleave(State) EXCEPT !.doc = SetVal(@, o, v)], "erasing:end", <<>>)
ErasingEnd(o, v) ==
    /\ ~historyIsMoving
    /\ ~disposed
    /\ Idle
    /\ Env(ErasingEndResult(o, v))
    /\ drag' = NoDrag

\* canvas.remove(...objs)
RemoveResult(S) == CanvasRemove(Interleave(State), Pick(doc, S))
Remove(S) ==
    /\ ~historyIsMoving
    /\ Idle
    /\ Env(RemoveResult(S))
    /\ drag' = NoDrag

\* A frame of a drag: the object is moved and object:moving raised.
MovingResult(o, v) ==
    Fire([Interleave(State) EXCEPT !.doc = SetVal(@, o, v)], "object:moving", o)
Moving(o, v) ==
    /\ Idle
    /\ ~disposed
    /\ Env(MovingResult(o, v))
    /\ drag' = [on |-> TRUE,
                many |-> drag.on,
                undo0 |-> IF drag.on THEN drag.undo0 ELSE historyUndo,
                appends |-> (IF drag.on THEN drag.appends ELSE 0)
                            + Appends(MovingResult(o, v).trace)]

\* The end of a transform (drag, scale, rotate): the object holds its final
\* properties and object:modified is raised.
ModifiedResult(o, v) ==
    Fire([Interleave(State) EXCEPT !.doc = SetVal(@, o, v)], "object:modified", o)
Modified(o, v) ==
    /\ ~disposed
    /\ Idle
    /\ Env(ModifiedResult(o, v))
    /\ drag' = NoDrag

SelectResult(S) == SetActive(Interleave(State), Pick(doc, S))
Select(S) ==
    /\ ~historyIsMoving
    /\ ~disposed
    /\ Idle
    /\ Pick(doc, S) # active
    /\ Env(SelectResult(S))
    /\ drag' = NoDrag

DeselectResult == DiscardActiveObject(Interleave(State))
Deselect ==
    /\ ~historyIsMoving
    /\ ~disposed
    /\ Idle
    /\ active # <<>>
    /\ Env(DeselectResult)
    /\ drag' = NoDrag

\* The inherited canvas.clear()
ClearResult == CanvasClear(Interleave(State))
Clear ==
    /\ ~historyIsMoving
    /\ ~disposed
    /\ Idle
    /\ Env(ClearResult)
    /\ drag' = NoDrag

UndoResult == Undo(Interleave(State))
UndoCall ==
    /\ ~disposed
    /\ InFlight < MaxInflight
    /\ Env(UndoResult)
    /\ drag' = NoDrag

RedoResult == Redo(Interleave(State))
RedoCall ==
    /\ ~disposed
    /\ InFlight < MaxInflight
    /\ Env(RedoResult)
    /\ drag' = NoDrag

ClearHistoryResult == ClearHistory(Interleave(State))
ClearHistoryCall ==
    /\ InFlight <= 1
    /\ ~historyIsMoving
    /\ ~disposed
    /\ Env(ClearHistoryResult)
    /\ drag' = NoDrag

ClearCanvasResult == ClearCanvas(Interleave(State))
ClearCanvasCall ==
    /\ InFlight <= 1
    /\ ~historyIsMoving
    /\ ~disposed
    /\ Env(ClearCanvasResult)
    /\ drag' = NoDrag

DisposeResult == Dispose(Interleave(State))
DisposeCall ==
    /\ ~historyIsMoving
    /\ Idle
    /\ ~disposed
    /\ Env(DisposeResult)
    /\ drag' = NoDrag

RemoveAt(q, i) == SubSeq(q, 1, i - 1) \o SubSeq(q, i + 1, Len(q))

\* loadFromJSON of the i-th pending call settles: its .then() runs, or it
\* rejects; the call's continuation is queued.
RestoreLoadResult(i, ok) ==
    LET c == loading[i]
        s0 == Interleave([State EXCEPT !.loading = RemoveAt(@, i)])
        s1 == IF ok THEN LoadFromJSONThen(s0, JSONparse(c.state)) ELSE s0
    IN [s1 EXCEPT !.microtasks = Append(@, [c EXCEPT !.phase = "resume", !.ok = ok])]
RestoreLoad(i, ok) ==
    /\ i \in 1..Len(loading)
    /\ Commit(RestoreLoadResult(i, ok))
    /\ drag' = NoDrag

\* The next microtask: a call resumes after an await.
MicrotaskResult ==
    LET c == Head(microtasks)
        s0 == Interleave([State EXCEPT !.microtasks = Tail(@)])
    IN IF c.phase = "resume" THEN AwaitLoadFromHistory(s0, c) ELSE FireDone(s0, c)
Microtask ==
    /\ microtasks # <<>>
    /\ Commit(MicrotaskResult)
    /\ drag' = NoDrag

Constructed ==
    /\ doc = Constructor.doc
    /\ active = Constructor.active
    /\ historyUndo = Constructor.historyUndo
    /\ historyRedo = Constructor.historyRedo
    /\ selectedObjects = Constructor.selectedObjects
    /\ isMultiSelection = Constructor.isMultiSelection
    /\ historyIsMoving = Constructor.historyIsMoving
    /\ historyProcessing = Constructor.historyProcessing
    /\ historyCurrentState = Constructor.historyCurrentState
    /\ listeners = Constructor.listeners
    /\ binds = Constructor.binds
    /\ disposed = Constructor.disposed
    /\ loading = Constructor.loading
    /\ microtasks = Constructor.microtasks
    /\ fresh = TRUE
    /\ drag = NoDrag

Init == Constructed /\ rt = NoTrip

\* The inputs the steps are tried on: a new object carries the default
\* properties, a transform acts on the top-most object, and a selection or a
\* removal takes the k top-most objects.
Default == "p"
Top == doc[Len(doc)].id
TopK(k) == {doc[i].id : i \in (Len(doc) - k + 1)..Len(doc)}
Others == Props \ {ValOf(doc, Top)}

\* overlap: undo()/redo() may be called while another call is pending;
\* failing: loadFromJSON may reject.
Step(overlap, failing) ==
    \/ Add(Default)
    \/ PathCreated(Default)
    \/ doc # <<>> /\ \E v \in Others : ErasingEnd(Top, v)
    \/ \E k \in 1..Len(doc) : Remove(TopK(k))
    \/ doc # <<>> /\ \E v \in Others : Moving(Top, v)
    \/ doc # <<>> /\ \E v \in Props : Modified(Top, v)
    \/ \E k \in 1..Len(doc) : Select(TopK(k))
    \/ Deselect
    \/ Clear
    \/ (overlap \/ Idle) /\ UndoCall
    \/ (overlap \/ Idle) /\ RedoCall
    \/ ClearHistoryCall
    \/ ClearCanvasCall
    \/ DisposeCall
    \/ \E i \in 1..Len(loading) :
           \E ok \in (IF failing THEN BOOLEAN ELSE {TRUE}) : RestoreLoad(i, ok)
    \/ Microtask

\* Calls awaited one after the other, restores that succeed.
Next == Step(FALSE, FALSE) /\ UNCHANGED rt
Spec == Init /\ [][Next]_vars

\* Calls that may overlap, restores that may fail.
NextOverlap == Step(TRUE, TRUE) /\ UNCHANGED rt
SpecOverlap == Init /\ [][NextOverlap]_vars

\* The round trip: captured mutations from the bootstrap state, then undo()
\* awaited until it is refused, then redo() awaited until it is refused.
InitRoundTrip == Constructed /\ rt = [NoTrip EXCEPT !.phase = "build"]

Mutation ==
    \/ Add(Default)
    \/ PathCreated(Default)
    \/ doc # <<>> /\ \E v \in Others : ErasingEnd(Top, v)
    \/ \E k \in 1..Len(doc) : Remove(TopK(k))
    \/ doc # <<>> /\ \E v \in Others : Moving(Top, v)
    \/ doc # <<>> /\ \E v \in Props : Modified(Top, v)
    \/ \E k \in 1..Len(doc) : Select(TopK(k))
    \/ Deselect
    \/ Clear
    \/ ClearCanvasCall

NextRoundTrip ==
    \/ rt.phase = "build" /\ Mutation /\ UNCHANGED rt
    \/ /\ rt.phase = "build"
       /\ canUndo(State)
       /\ UndoCall
       /\ rt' = [phase |-> "undo", k |-> 1, undo0 |-> historyUndo,
                 redo0 |-> historyRedo, marker0 |-> historyCurrentState]
    \/ /\ rt.phase = "undo"
       /\ Idle
       /\ canUndo(State)
       /\ UndoCall
       /\ rt' = [rt EXCEPT !.k = @ + 1]
    \/ /\ rt.phase = "undo"
       /\ Idle
       /\ rt.k = Len(rt.undo0) - 1
       /\ RedoCall
       /\ rt' = [rt EXCEPT !.phase = "redo", !.k = @ - 1]
    \/ /\ rt.phase = "redo"
       /\ Idle
       /\ rt.k > 0
       /\ RedoCall
       /\ rt' = [rt EXCEPT !.k = @ - 1]
    \/ rt.phase # "build" /\ RestoreLoad(1, TRUE) /\ UNCHANGED rt
    \/ rt.phase # "build" /\ Microtask /\ UNCHANGED rt
SpecRoundTrip == InitRoundTrip /\ [][NextRoundTrip]_vars

\* ------------------------------------------------------------- properties
\* C1: immediately after construction, before any notification or call,
\* canUndo() and canRedo() are false: the undo stack holds exactly the token
\* of the starting document and the redo stack is empty.
C1_Bootstrap ==
    fresh => /\ ~canUndo(State)
             /\ ~canRedo(State)
             /\ historyUndo = <<historyCurrent(State)>>
             /\ historyRedo = <<>>

C1_Witness == fresh /\ Len(historyUndo) = 1 /\ historyUndo[1] = historyCurrent(State)

\* C2: in every reachable state, calls awaited or overlapping, the undo
\* stack has at least one entry, and canUndo() is false exactly when it has
\* one.
C2_UndoNeverEmpty ==
    /\ Len(historyUndo) >= 1
    /\ (~canUndo(State)) <=> (Len(historyUndo) = 1)

\* An undo() is pending, the stack is back at the bootstrap entry and a second
\* undo() is refused.
C2_Witness ==
    /\ InFlight >= 1
    /\ historyRedo # <<>>
    /\ Len(historyUndo) = 1
    /\ ~canUndo(State)
    /\ UndoResult = Interleave(State)

\* C3: from the bootstrap state, after n captured mutations producing the
\* states s1..sn, n awaited undo() calls leave the document in the bootstrap
\* state with canUndo() false; n awaited redo() calls then leave it in state
\* sn with canRedo() false and the stacks and marker as before the first
\* undo().
C3_RoundTrip ==
    LET n == Len(rt.undo0) - 1
    IN /\ (rt.phase = "undo" /\ Idle /\ rt.k = n) =>
              /\ historyCurrent(State) = rt.undo0[1]
              /\ ~canUndo(State)
       /\ (rt.phase = "redo" /\ Idle /\ rt.k = 0) =>
              /\ historyCurrent(State) = rt.undo0[n + 1]
              /\ ~canRedo(State)
              /\ historyUndo = rt.undo0
              /\ historyRedo = rt.redo0
              /\ historyCurrentState = rt.marker0

\* MaxTrip - 1 mutations were undone and redone.
C3_Witness ==
    /\ rt.phase = "redo"
    /\ Idle
    /\ rt.k = 0
    /\ Len(rt.undo0) = MaxTrip
    /\ historyUndo = rt.undo0
    /\ historyCurrent(State) = rt.undo0[MaxTrip]
    /\ rt.undo0[MaxTrip] # rt.undo0[1]

\* The awaited call that completes with the next microtask: nothing else ran
\* since it was called, and its restore succeeded.
Completing(op) ==
    IF microtasks = <<>> THEN {}
    ELSE {c \in {Head(microtasks)} :
              c.phase = "fire" /\ c.op = op /\ c.clean /\ c.ok}

\* C4: when undo() is called with canUndo() true and awaited with nothing
\* interleaved, on completion the former top of the undo stack is on top of
\* the redo stack, the document's token is the new top of the undo stack, and
\* the marker is that token.
C4_AwaitedUndo ==
    \A c \in Completing("undo") :
        LET r == MicrotaskResult
        IN /\ r.historyUndo = Front(c.pre.undo)
           /\ r.historyRedo = Append(c.pre.redo, Last(c.pre.undo))
           /\ historyCurrent(r) = Last(r.historyUndo)
           /\ r.historyCurrentState = Last(r.historyUndo)

\* An undo() that restored a document with objects is completing.
C4_Witness ==
    \E c \in Completing("undo") :
        /\ Len(c.pre.undo) >= 2
        /\ MicrotaskResult.historyUndo = Front(c.pre.undo)
        /\ MicrotaskResult.doc # <<>>
        /\ historyCurrent(MicrotaskResult) = Last(MicrotaskResult.historyUndo)

\* C5: when redo() is called with a non-empty redo stack and awaited with
\* nothing interleaved, on completion the former top of the redo stack is on
\* top of the undo stack, and the document's token and the marker are that
\* token.
C5_AwaitedRedo ==
    \A c \in Completing("redo") :
        LET r == MicrotaskResult
        IN /\ r.historyRedo = Front(c.pre.redo)
           /\ r.historyUndo = Append(c.pre.undo, Last(c.pre.redo))
           /\ historyCurrent(r) = Last(c.pre.redo)
           /\ r.historyCurrentState = Last(c.pre.redo)

\* A redo() that restored a document with objects is completing.
C5_Witness ==
    \E c \in Completing("redo") :
        /\ Len(c.pre.redo) >= 1
        /\ MicrotaskResult.historyUndo = Append(c.pre.undo, Last(c.pre.redo))
        /\ MicrotaskResult.doc # <<>>
        /\ historyCurrent(MicrotaskResult) = Last(c.pre.redo)

\* What the mutating operations of the host would leave, each tried on the
\* current state.
Outcomes ==
    (IF Len(doc) < MaxObjs
     THEN {AddResult(v) : v \in Props} \cup {PathCreatedResult(v) : v \in Props}
     ELSE {})
    \cup {RemoveResult(S) : S \in SUBSET DocIds}
    \cup {ModifiedResult(o, v) : o \in DocIds, v \in Props}
    \cup {ErasingEndResult(o, v) : o \in DocIds, v \in Props}
    \cup {ClearResult, ClearCanvasResult}

\* C6: after an undo(), any mutation that is captured empties the redo
\* stack: canRedo() is false and a redo() then changes neither the document
\* nor the stacks.
C6_RedoInvalidation ==
    historyRedo # <<>> =>
        \A r \in Outcomes :
            Len(r.historyUndo) > Len(historyUndo) =>
                /\ r.historyRedo = <<>>
                /\ ~canRedo(r)
                /\ Redo(r) = r

\* With an undone entry on the redo stack, an add is captured.
C6_Witness ==
    /\ historyRedo # <<>>
    /\ Idle
    /\ Len(doc) < MaxObjs
    /\ Len(AddResult(Default).historyUndo) = Len(historyUndo) + 1
    /\ AddResult(Default).historyRedo = <<>>
    /\ Redo(AddResult(Default)) = AddResult(Default)

AppendsOf(tr) == SelectSeq(tr, LAMBDA e : e.name = "history:append")

\* The pass-through condition of _handleObjectRemoved.
Unbatched(o) == ~(~historyProcessing /\ isMultiSelection /\ InSeq(selectedObjects, o))

\* One object added, or one object removed with batching not armed.
SingleOutcomes ==
    (IF Len(doc) < MaxObjs THEN {AddResult(v) : v \in Props} ELSE {})
    \cup {RemoveResult({o}) : o \in {x \in DocIds : Unbatched(x)}}

CapturedOnce(r, undo0) ==
    /\ r.historyUndo = Append(undo0, historyCurrent(r))
    /\ AppendsOf(r.trace) = <<Ev("history:append", historyCurrent(r))>>

\* C7: a single object-added notification, or a single object-removed
\* notification with batching not armed, arriving with neither flag set and
\* the document token changed, pushes exactly one entry and emits exactly one
\* history:append carrying that token.
C7_SingleAppend ==
    (~historyProcessing /\ ~historyIsMoving) =>
        \A r \in SingleOutcomes :
            historyCurrent(r) # historyCurrentState => CapturedOnce(r, historyUndo)

\* Both an add and an unbatched removal are captured from this state.
C7_Witness ==
    /\ ~historyProcessing /\ ~historyIsMoving
    /\ doc # <<>>
    /\ Len(doc) < MaxObjs
    /\ Unbatched(Top)
    /\ historyCurrent(AddResult(Default)) # historyCurrentState
    /\ CapturedOnce(AddResult(Default), historyUndo)
    /\ historyCurrent(RemoveResult({Top})) # historyCurrentState
    /\ CapturedOnce(RemoveResult({Top}), historyUndo)

CaptureTriggers == {"path:created", "erasing:end", "object:added", "object:modified"}

\* The capture-trigger notifications delivered on the current state, the
\* document untouched.
Deliveries ==
    {Fire(State, e, <<>>) : e \in CaptureTriggers}
    \cup {Fire(State, "object:removed", o) : o \in {x \in Ids : Unbatched(x)}}

\* C8: a capture trigger arriving when the document's token equals the
\* marker changes neither stack nor the marker and emits no history:append;
\* so two consecutive triggers over one document state yield one entry.
C8_Dedup ==
    /\ historyCurrent(State) = historyCurrentState =>
           \A r \in Deliveries :
               /\ r.historyUndo = historyUndo
               /\ r.historyRedo = historyRedo
               /\ r.historyCurrentState = historyCurrentState
               /\ Appends(r.trace) = 0
    /\ Len(doc) < MaxObjs =>
           /\ Len(PathCreatedResult(Default).historyUndo) <= Len(historyUndo) + 1
           /\ Appends(PathCreatedResult(Default).trace) <= 1

\* A free-drawn path raises object:added and path:created over the same
\* document state, with the capture enabled.
C8_Witness ==
    /\ ~historyProcessing /\ ~historyIsMoving
    /\ historyCurrent(State) = historyCurrentState
    /\ Len(historyUndo) >= 2
    /\ Len(doc) < MaxObjs
    /\ Appends(AddResult(Default).trace) = 1
    /\ Appends(PathCreatedResult(Default).trace) = 1
    /\ Raised(PathCreatedResult(Default).trace, "path:created") = 1

\* C9: N >= 1 object:moving notifications followed by one object:modified,
\* with no replay in progress and the committed state different from the
\* marker, produce exactly one push and one history:append, and the pushed
\* token is the document at the commit, not a state seen while the transient
\* flag was set.
C9_TransientSuppression ==
    (drag.on /\ ~historyProcessing) =>
        /\ historyUndo = drag.undo0
        /\ drag.appends = 0
        /\ \A v \in Props :
               LET r == ModifiedResult(Top, v)
               IN historyCurrent(r) # historyCurrentState =>
                      CapturedOnce(r, drag.undo0)

\* Several frames of a drag were delivered and its commit is captured.
C9_Witness ==
    /\ drag.on
    /\ drag.many
    /\ ~historyProcessing
    /\ historyIsMoving
    /\ historyCurrent(State) # historyCurrentState
    /\ CapturedOnce(ModifiedResult(Top, ValOf(doc, Top)), drag.undo0)

\* The orders in which the objects of S can be handed to remove().
Orders(S) ==
    {q \in [1..Cardinality(S) -> S] : \A i, j \in 1..Cardinality(S) : q[i] = q[j] => i = j}

Armed ==
    /\ isMultiSelection
    /\ ~historyProcessing
    /\ ~historyIsMoving
    /\ Len(selectedObjects) >= 2
    /\ Range(selectedObjects) \subseteq DocIds

BatchCaptured(r) ==
    /\ Raised(r.trace, "object:removed") = Len(selectedObjects)
    /\ Appends(r.trace) = 1
    /\ Len(r.historyUndo) = Len(historyUndo) + 1
    /\ Last(r.historyUndo) = historyCurrent(r)

InitBatch == Constructed /\ rt = [NoTrip EXCEPT !.phase = "arm"]

NextBatch ==
    \/ rt.phase = "arm" /\ Mutation /\ UNCHANGED rt
    \/ /\ rt.phase = "arm"
       /\ Armed
       /\ Remove(Range(selectedObjects))
       /\ rt' = [phase |-> "removed", k |-> Len(selectedObjects),
                 undo0 |-> historyUndo, before |-> historyCurrent(State),
                 after |-> historyCurrent(RemoveResult(Range(selectedObjects)))]
    \/ rt.phase = "removed" /\ UndoCall /\ rt' = [rt EXCEPT !.phase = "undone"]
    \/ rt.phase = "undone" /\ Idle /\ RedoCall /\ rt' = [rt EXCEPT !.phase = "redone"]
    \/ rt.phase \in {"undone", "redone"} /\ RestoreLoad(1, TRUE) /\ UNCHANGED rt
    \/ rt.phase \in {"undone", "redone"} /\ Microtask /\ UNCHANGED rt
SpecBatch == InitBatch /\ [][NextBatch]_vars

C12_UndoNoOp == ~canUndo(State) => Undo(State) = State

\* Nothing to undo, on a canvas that holds objects and a redo entry.
C12_Witness ==
    /\ ~fresh
    /\ ~canUndo(State)
    /\ doc # <<>>
    /\ historyRedo # <<>>
    /\ Undo(State).trace = <<>>
    /\ Undo(State).historyRedo = historyRedo

\* C13: redo() called when the redo stack is empty leaves the document, both
\* stacks, the marker and both flags unchanged and emits no notification.
C13_RedoNoOp == ~canRedo(State) => Redo(State) = State

\* Nothing to redo, on a canvas that holds objects and an undoable entry.
C13_Witness ==
    /\ ~fresh
    /\ ~canRedo(State)
    /\ doc # <<>>
    /\ canUndo(State)
    /\ Redo(State).trace = <<>>
    /\ Redo(State).historyUndo = historyUndo

\* The operation left the stacks and the marker as they are and emitted no
\* history:append.
Untouched(r) ==
    /\ r.historyUndo = historyUndo
    /\ r.historyRedo = historyRedo
    /\ r.historyCurrentState = historyCurrentState
    /\ Appends(r.trace) = 0

\* C14: during an awaited undo() or redo() with nothing interleaved, the
\* notifications raised by the restore (the removals of the clear, the
\* additions of the reload) push nothing, leave the redo stack and the marker
\* alone and emit no history:append; and any capture trigger arriving while
\* the replay flag is set has none of those effects.
C14_ReplayNotCaptured ==
    /\ (Idle /\ canUndo(State)) =>
           /\ Appends(UndoResult.trace) = 0
           /\ UndoResult.historyUndo = Front(historyUndo)
           /\ UndoResult.historyRedo = Append(historyRedo, Last(historyUndo))
           /\ UndoResult.historyCurrentState = Last(Front(historyUndo))
    /\ (Idle /\ canRedo(State)) =>
           /\ Appends(RedoResult.trace) = 0
           /\ RedoResult.historyUndo = Append(historyUndo, Last(historyRedo))
           /\ RedoResult.historyRedo = Front(historyRedo)
           /\ RedoResult.historyCurrentState = Last(historyRedo)
    /\ \A i \in 1..Len(loading) :
           loading[i].clean => Untouched(RestoreLoadResult(i, TRUE))
    /\ historyProcessing => \A r \in Deliveries : Untouched(r)

\* The reload of an awaited call is about to add objects back, unrecorded.
C14_Witness ==
    /\ historyProcessing
    /\ Len(loading) = 1
    /\ loading[1].clean
    /\ Raised(RestoreLoadResult(1, TRUE).trace, "object:added") >= 1
    /\ historyCurrent(RestoreLoadResult(1, TRUE)) # historyCurrent(State)
    /\ Untouched(RestoreLoadResult(1, TRUE))

\* C15 (as stated): whenever an undo() or redo() has started its restore and
\* the restore has not settled, the replay flag is set, whatever else runs in
\* that window.
C15_FlagHeldWhileRestoring == loading # <<>> => historyProcessing

\* C16 (as stated): when undo()/redo() calls overlap, no notification raised
\* by a restore that settles is captured: the stacks and the marker are
\* left alone and no history:append is emitted.
C16_OverlapNotCaptured ==
    InFlight >= 2 =>
        \A i \in 1..Len(loading) : Untouched(RestoreLoadResult(i, TRUE))

\* The awaited call whose restore failed and that completes with the next
\* microtask.
Failing ==
    IF microtasks = <<>> THEN {}
    ELSE {c \in {Head(microtasks)} : c.phase = "fire" /\ c.clean /\ ~c.ok}

\* C17 (as stated): if the restore of an undo() or redo() fails, then once
\* the call completes the document, both stacks and the marker are as they
\* were before the call.
C17_FailedRestoreRollsBack ==
    \A c \in Failing :
        LET r == MicrotaskResult
        IN /\ r.historyUndo = c.pre.undo
           /\ r.historyRedo = c.pre.redo
           /\ r.historyCurrentState = c.pre.marker
           /\ historyCurrent(r) = c.pre.token

\* C18: clearHistory(), called in any state, leaves the undo stack holding
\* exactly the document's current token, the marker at that token and the
\* redo stack empty, emits exactly one history:cleared and does not change
\* the document; afterwards canUndo() and canRedo() are false.
C18_ClearHistory ==
    LET r == ClearHistory(State)
    IN /\ r.historyUndo = <<historyCurrent(State)>>
       /\ r.historyCurrentState = historyCurrent(State)
       /\ r.historyRedo = <<>>
       /\ Raised(r.trace, "history:cleared") = 1
       /\ r.doc = doc
       /\ ~canUndo(r)
       /\ ~canRedo(r)

\* clearHistory() on a canvas with objects and entries to drop.
C18_Witness ==
    /\ doc # <<>>
    /\ canUndo(State) \/ canRedo(State)
    /\ Raised(ClearHistory(State).trace, "history:cleared") = 1
    /\ ClearHistory(State).historyUndo = <<historyCurrent(State)>>
    /\ ClearHistory(State).historyRedo = <<>>

\* Every notification a handler is registered for, delivered on the current
\* state.
Notifications ==
    {Fire(State, e, <<>>) : e \in CaptureTriggers \cup
                                 {"object:moving", "selection:updated", "selection:cleared"}}
    \cup {Fire(State, "object:removed", o) : o \in Ids}
    \cup {Fire(State, "selection:created", IdsOf(doc))}

\* C19 (as stated): after dispose(), every mutation or selection
\* notification delivered on the document is inert: no stack, marker or flag
\* changes and no history:append is emitted.
C19_InertAfterDispose ==
    disposed =>
        \A r \in Notifications :
            /\ Untouched(r)
            /\ r.historyIsMoving = historyIsMoving
            /\ r.historyProcessing = historyProcessing
            /\ r.isMultiSelection = isMultiSelection
            /\ r.selectedObjects = selectedObjects

\* C20 (as stated): a canvas:cleared notification arriving (on a canvas not
\* disposed) with neither flag set and the document token different from the
\* marker pushes exactly one entry and emits one history:append.
C20_ClearedIsTrigger ==
    (~disposed /\ ~historyProcessing /\ ~historyIsMoving
        /\ historyCurrent(State) # historyCurrentState) =>
        CapturedOnce(Fire(State, "canvas:cleared", <<>>), historyUndo)

\* The history:undo / history:redo events among those raised.
DoneEvents(tr) ==
    SelectSeq(tr, LAMBDA e : e.name \in {"history:undo", "history:redo"})

\* C21: every undo() that passes its guard emits exactly one history:undo
\* carrying the token it popped, and every redo() one history:redo carrying
\* the token it popped; the event is emitted by the call's last step, after
\* its restore has settled and the replay flag was cleared, and by no earlier
\* step; a call rejected by its guard emits none.
C21_CompletionEvents ==
    /\ LET r == Undo(State)
       IN IF canUndo(State)
          THEN /\ DoneEvents(r.trace) = <<>>
               /\ Len(r.loading) = Len(loading) + 1
               /\ Last(r.loading).op = "undo"
               /\ Last(r.loading).popped = Last(historyUndo)
          ELSE DoneEvents(r.trace) = <<>> /\ r.loading = loading
    /\ LET r == Redo(State)
       IN IF canRedo(State)
          THEN /\ DoneEvents(r.trace) = <<>>
               /\ Len(r.loading) = Len(loading) + 1
               /\ Last(r.loading).op = "redo"
               /\ Last(r.loading).popped = Last(historyRedo)
          ELSE DoneEvents(r.trace) = <<>> /\ r.loading = loading
    /\ \A i \in 1..Len(loading) : \A ok \in BOOLEAN :
           DoneEvents(RestoreLoadResult(i, ok).trace) = <<>>
    /\ microtasks # <<>> =>
           LET c == Head(microtasks)
               r == MicrotaskResult
           IN IF c.phase = "resume"
              THEN DoneEvents(r.trace) = <<>>
              ELSE /\ ~historyProcessing
                   /\ DoneEvents(r.trace) =
                          <<Ev(IF c.op = "undo" THEN "history:undo" ELSE "history:redo",
                               c.popped)>>

\* An undo() whose restore settled is about to emit its history:undo.
C21_Witness ==
    /\ microtasks # <<>>
    /\ Head(microtasks).phase = "fire"
    /\ Head(microtasks).op = "undo"
    /\ Head(microtasks).popped # Head(microtasks).state
    /\ ~historyProcessing
    /\ DoneEvents(MicrotaskResult.trace) = <<Ev("history:undo", Head(microtasks).popped)>>

\* Overlapping calls and failing restores, where every pending loadFromJSON
\* settles (one way or the other) and the event loop runs every queued
\* continuation.
SpecFair ==
    /\ SpecOverlap
    /\ WF_vars((\E i \in 1..MaxInflight : \E ok \in BOOLEAN : RestoreLoad(i, ok))
                /\ UNCHANGED rt)
    /\ WF_vars(Microtask /\ UNCHANGED rt)

\* C22: whenever the replay flag is set by undo() or redo() it is eventually
\* cleared, provided the restore settles, whether it succeeds or fails; and
\* no call has returned with the flag left set (with no call in flight the
\* flag is false).
C22_FlagEventuallyCleared ==
    /\ [](Idle => ~historyProcessing)
    /\ [](historyProcessing => <>(~historyProcessing))

\* A call whose restore failed is about to resume with the flag still set,
\* and its resumption clears it.
C22_Witness ==
    /\ microtasks # <<>>
    /\ Head(microtasks).phase = "resume"
    /\ ~Head(microtasks).ok
    /\ historyProcessing
    /\ ~MicrotaskResult.historyProcessing

\* C23: a failed restore never makes undo() or redo() throw or reject: the
\* rejection of loadFromJSON is caught, reported once on the console, and the
\* call goes on to its last statement and completes with its event.
C23_FailedRestoreReported ==
    /\ \A i \in 1..Len(loading) :
           LET r == RestoreLoadResult(i, FALSE)
           IN /\ Len(r.microtasks) = Len(microtasks) + 1
              /\ Last(r.microtasks).phase = "resume"
              /\ ~Last(r.microtasks).ok
              /\ Last(r.microtasks).op = loading[i].op
    /\ (microtasks # <<>> /\ ~Head(microtasks).ok) =>
           LET c == Head(microtasks)
               r == MicrotaskResult
           IN IF c.phase = "resume"
              THEN /\ Raised(r.trace, "console.error") = 1
                   /\ DoneEvents(r.trace) = <<>>
                   /\ Len(r.microtasks) = Len(microtasks)
                   /\ Last(r.microtasks) = [c EXCEPT !.phase = "fire"]
              ELSE /\ Raised(r.trace, "console.error") = 0
                   /\ Len(DoneEvents(r.trace)) = 1
                   /\ Len(r.microtasks) = Len(microtasks) - 1
    /\ (microtasks # <<>> /\ Head(microtasks).ok) =>
           Raised(MicrotaskResult.trace, "console.error") = 0

\* A redo() whose restore failed resumes: the failure is reported and the
\* call is queued for its last statement.
C23_Witness ==
    /\ microtasks # <<>>
    /\ Head(microtasks).phase = "resume"
    /\ Head(microtasks).op = "redo"
    /\ ~Head(microtasks).ok
    /\ Raised(MicrotaskResult.trace, "console.error") = 1
    /\ Last(MicrotaskResult.microtasks).phase = "fire"

\* The selections the user can make next: any non-empty set of objects of the
\* document, in z-order, other than the current one.
Selections == {Pick(doc, S) : S \in SUBSET DocIds} \ {<<>>, active}

\* C24: after a selection-created, selection-updated or selection-cleared
\* notification, batching is armed if and only if the notified selection has
\* more than one object, the pending set is that selection when armed, and it
\* holds no object outside the notified selection otherwise.
C24_SelectionTracked ==
    /\ \A sel \in Selections :
           LET r == SetActive(Interleave(State), sel)
           IN /\ r.isMultiSelection = (Len(sel) > 1)
              /\ Range(r.selectedObjects) \subseteq Range(sel)
              /\ Len(sel) > 1 => r.selectedObjects = sel
    /\ active # <<>> =>
           /\ DeselectResult.selectedObjects = <<>>
           /\ ~DeselectResult.isMultiSelection

\* The members of the pending set that are in the document.
PendingOnCanvas == Range(selectedObjects) \cap DocIds

\* C25: with batching armed and no replay or batch in progress, when the
\* caller removes any one member of the pending set, then after the handling
\* of its object-removed notification no object of that pending set is left
\* in the document and the pending set is empty.
C25_WholeSetRemoved ==
    (isMultiSelection /\ ~historyProcessing) =>
        \A o \in PendingOnCanvas :
            LET r == CanvasRemove(State, <<o>>)
            IN /\ Range(IdsOf(r.doc)) \cap Range(selectedObjects) = {}
               /\ r.selectedObjects = <<>>

\* Two objects are selected and on the canvas; removing the upper one alone
\* takes the other one with it.
C25_Witness ==
    /\ isMultiSelection
    /\ ~historyProcessing
    /\ Len(selectedObjects) = 2
    /\ PendingOnCanvas = Range(selectedObjects)
    /\ LET r == CanvasRemove(State, <<selectedObjects[2]>>)
       IN /\ Raised(r.trace, "object:removed") = 2
          /\ Range(IdsOf(r.doc)) \cap Range(selectedObjects) = {}
          /\ r.selectedObjects = <<>>

\* The names of the notifications raised, in order.
Names(tr) == [i \in 1..Len(tr) |-> tr[i].name]

\* The state the batcher is in while its own removal runs.
InsideBatch == [State EXCEPT !.historyProcessing = TRUE, !.selectedObjects = <<>>]

\* C26: the handling of object-removed terminates and enters the batch branch
\* once per compound removal: an object-removed notification delivered while
\* the batcher's flag is set takes the pass-through branch, removes nothing
\* and captures nothing; so a compound removal raises one object-removed per
\* member, captures at most once, after all of them, and leaves the flag
\* cleared.
C26_BatchEnteredOnce ==
    /\ \A o \in Ids :
           LET r == Fire(InsideBatch, "object:removed", o)
           IN /\ Names(r.trace) = <<"object:removed">>
              /\ r.doc = doc
              /\ r.historyProcessing
              /\ r.historyUndo = historyUndo
              /\ r.historyCurrentState = historyCurrentState
    /\ (isMultiSelection /\ ~historyProcessing /\ ~historyIsMoving) =>
           \A S \in SUBSET PendingOnCanvas : \A q \in Orders(S) :
               S # {} =>
                   LET r == CanvasRemove(State, q)
                   IN /\ Raised(r.trace, "object:removed") = Cardinality(PendingOnCanvas)
                      /\ Appends(r.trace) <= 1
                      /\ Appends(r.trace) = 1 => Last(r.trace).name = "history:append"
                      /\ ~r.historyProcessing

\* Two selected objects, one removed by the caller: the other is removed by
\* the batcher, and the capture comes last.
C26_Witness ==
    /\ isMultiSelection /\ ~historyProcessing /\ ~historyIsMoving
    /\ Cardinality(PendingOnCanvas) = 2
    /\ Names(CanvasRemove(State, <<selectedObjects[1]>>).trace) =
           <<"object:removed", "object:removed", "selection:cleared", "history:append">>

\* C27: in no reachable state are the transient-operation flag
\* (_historyIsMoving) and the replay flag (_historyProcessing) both set.
C27_OneSuspensionReason == ~(historyIsMoving /\ historyProcessing)

\* clearCanvas() emptied the document and captured the cleared state once,
\* after the removal notifications.
ClearedAndCaptured(r) ==
    /\ Appends(r.trace) = 1
    /\ Last(r.trace).name = "history:append"
    /\ r.historyUndo = Append(historyUndo, historyCurrent(r))
    /\ r.historyCurrentState = historyCurrent(r)
    /\ r.historyRedo = <<>>

\* C28 (as amended): clearCanvas() called with neither flag set on a document
\* of K >= 0 objects empties it and raises K object-removed notifications,
\* none of which captures; then, if the token of the cleared document differs
\* from the marker, it pushes exactly one entry (the cleared state) with
\* exactly one history:append, and if it equals the marker it pushes nothing.
C28_ClearCanvas ==
    (~historyProcessing /\ ~historyIsMoving) =>
        LET r == ClearCanvasResult
        IN /\ r.doc = <<>>
           /\ Raised(r.trace, "object:removed") = Len(doc)
           /\ ~r.historyProcessing
           /\ IF historyCurrent(r) # historyCurrentState
              THEN ClearedAndCaptured(r)
              ELSE /\ Appends(r.trace) = 0
                   /\ r.historyUndo = historyUndo
                   /\ r.historyRedo = historyRedo
                   /\ r.historyCurrentState = historyCurrentState

\* clearCanvas() on two objects: two removals, one capture.
C28_Witness ==
    /\ ~historyProcessing /\ ~historyIsMoving
    /\ Len(doc) = 2
    /\ Raised(ClearCanvasResult.trace, "object:removed") = 2
    /\ ClearedAndCaptured(ClearCanvasResult)

\* C28 (as stated): clearCanvas() called with neither flag set on a document
\* of K >= 1 objects empties it, raises K object-removed notifications and
\* pushes exactly one entry with exactly one history:append.
C28_AsStated ==
    (~historyProcessing /\ ~historyIsMoving /\ doc # <<>>) =>
        LET r == ClearCanvasResult
        IN /\ r.doc = <<>>
           /\ Raised(r.trace, "object:removed") = Len(doc)
           /\ ClearedAndCaptured(r)

\* The step is a clearHistory(): the undo stack is re-seeded with the token of
\* the document as it is.
ReSeeded ==
    /\ historyUndo' = ClearHistoryResult.historyUndo
    /\ historyCurrentState' = ClearHistoryResult.historyCurrentState
    /\ historyRedo' = <<>>

\* C29: the bottom entry of the undo stack is the token captured at
\* construction, and no step removes or replaces it: every step leaves the
\* stack non-empty with the same bottom entry, except clearHistory(), which
\* re-captures it from the document.
C29_BottomEntryStable ==
    /\ historyUndo = <<historyCurrent(Constructor)>>
    /\ [][/\ historyUndo' # <<>>
          /\ Head(historyUndo') = Head(historyUndo) \/ ReSeeded]_vars

\* Everything was undone: the stack is down to its bottom entry, which is
\* still the token of construction, with the undone entries on the redo stack.
C29_Witness ==
    /\ historyRedo # <<>>
    /\ Len(historyRedo) = MaxHist - 1
    /\ historyUndo = <<historyCurrent(Constructor)>>
    /\ Idle

\* C30: in every reachable state between steps (construction, captures,
\* undo, redo, clearHistory, clearCanvas, in any order and overlap) the
\* marker equals the top entry of the undo stack.
C30_MarkerIsTop ==
    /\ historyUndo # <<>>
    /\ historyCurrentState = Last(historyUndo)

\* An undo() and a redo() are pending together, after a capture.
C30_Witness ==
    /\ InFlight = 2
    /\ \E c \in Range(loading) \cup Range(microtasks) : c.op = "undo"
    /\ \E c \in Range(loading) \cup Range(microtasks) : c.op = "redo"
    /\ historyCurrentState = Last(historyUndo)
    /\ Len(historyUndo) > 1

\* No two neighbours of the sequence are equal.
NoRepeat(q) == \A i \in 1..(Len(q) - 1) : q[i] # q[i + 1]

\* C31: in every reachable state no two adjacent entries of the undo stack
\* are equal, and the top of a non-empty redo stack differs from the top of
\* the undo stack; so an undo() or redo() that passes its guard restores a
\* token different from the marker it replaces.
C31_NoAdjacentDuplicates ==
    /\ NoRepeat(historyUndo)
    /\ historyRedo # <<>> => Last(historyRedo) # Last(historyUndo)
    /\ canUndo(State) =>
           /\ Last(Undo(State).loading).state # historyCurrentState
           /\ Undo(State).historyCurrentState # historyCurrentState
    /\ canRedo(State) =>
           /\ Last(Redo(State).loading).state # historyCurrentState
           /\ Redo(State).historyCurrentState # historyCurrentState

\* A change was undone and can be redone: the entry on the redo stack differs
\* from the one on top of the undo stack, and redo() restores a token other
\* than the marker.
C31_Witness ==
    /\ canRedo(State)
    /\ Idle
    /\ Last(historyRedo) # Last(historyUndo)
    /\ Last(Redo(State).loading).state # historyCurrentState

Reverse(q) == [i \in 1..Len(q) |-> q[Len(q) + 1 - i]]

\* The linear timeline the two stacks stand for: the entries up to the cursor,
\* then the undone ones, the next to redo first.
Timeline(undo, redo) == undo \o Reverse(redo)

IsPrefix(p, q) == Len(p) <= Len(q) /\ SubSeq(q, 1, Len(p)) = p

\* What a step may do to the timeline: nothing; move the cursor by one; cut
\* it at the cursor and extend it there; or start it anew as clearHistory()
\* does.
TimelineStep ==
    \/ UNCHANGED <<historyUndo, historyRedo>>
    \/ /\ Timeline(historyUndo', historyRedo') = Timeline(historyUndo, historyRedo)
       /\ Len(historyUndo') \in {Len(historyUndo) - 1, Len(historyUndo) + 1}
    \/ /\ historyRedo' = <<>>
       /\ IsPrefix(historyUndo, historyUndo')
       /\ Len(historyUndo') > Len(historyUndo)
    \/ ReSeeded

\* C32: undo followed by the reversed redo stack is a timeline with a cursor:
\* undo() and redo() leave it unchanged and move the cursor by one entry; a
\* capture replaces it by the undo stack extended with the new token, the
\* entries after the cursor being discarded; and no step does anything else
\* to it, except clearHistory(), which starts it anew.
C32_TimelineRefinement ==
    /\ [](canUndo(State) =>
             LET r == Undo(State)
             IN /\ Timeline(r.historyUndo, r.historyRedo) = Timeline(historyUndo, historyRedo)
                /\ Len(r.historyUndo) = Len(historyUndo) - 1)
    /\ [](canRedo(State) =>
             LET r == Redo(State)
             IN /\ Timeline(r.historyUndo, r.historyRedo) = Timeline(historyUndo, historyRedo)
                /\ Len(r.historyUndo) = Len(historyUndo) + 1)
    /\ [](\A r \in Outcomes :
             Appends(r.trace) = 1 =>
                 Timeline(r.historyUndo, r.historyRedo) =
                     Append(historyUndo, historyCurrent(r)))
    /\ [][TimelineStep]_vars

\* An entry was undone; a redo() would move the cursor forward over the same
\* timeline, and a capture would cut the timeline at the cursor.
C32_Witness ==
    /\ canRedo(State)
    /\ Idle
    /\ Len(Timeline(historyUndo, historyRedo)) > Len(historyUndo)
    /\ Timeline(Redo(State).historyUndo, Redo(State).historyRedo) =
           Timeline(historyUndo, historyRedo)
    /\ \E r \in Outcomes :
           /\ Appends(r.trace) = 1
           /\ Len(Timeline(r.historyUndo, r.historyRedo)) <=
                  Len(Timeline(historyUndo, historyRedo))

\* Every undo()/redo() is awaited: while a call is in flight only its own
\* restore and continuations run, and restores succeed.
NextAwaited ==
    \/ Idle /\ Next
    \/ /\ ~Idle
       /\ (\E i \in 1..Len(loading) : RestoreLoad(i, TRUE)) \/ Microtask
       /\ UNCHANGED rt
SpecAwaited == Init /\ [][NextAwaited]_vars

\* C33: with every undo()/redo() awaited, every restore succeeding and every
\* mutation of the document followed by its notification (a canvas that was
\* not disposed: dispose() drops the objects without notifying), in every
\* state where both suppression flags are false and no call is in flight the
\* document's token equals the marker.
C33_NoSilentDivergence ==
    (Idle /\ ~historyProcessing /\ ~historyIsMoving /\ ~disposed) =>
        historyCurrent(State) = historyCurrentState

\* An awaited undo() has restored a document with objects: its token is the
\* marker, with the undone entry on the redo stack.
C33_Witness ==
    /\ Idle /\ ~historyProcessing /\ ~historyIsMoving /\ ~disposed
    /\ historyRedo # <<>>
    /\ doc # <<>>
    /\ historyCurrent(State) = historyCurrentState

\* What every operation other than object:moving and object:modified would
\* leave, each tried on the current state: the public methods, the steps of
\* the calls in flight, and the notifications of adds, removals, paths,
\* erasures, clear() and selections.
FrameOutcomes ==
    {Undo(State), Redo(State), ClearHistory(State), ClearCanvas(State), ClearResult}
    \cup (IF Len(doc) < MaxObjs
          THEN {AddResult(v) : v \in Props} \cup {PathCreatedResult(v) : v \in Props}
          ELSE {})
    \cup {RemoveResult(S) : S \in SUBSET DocIds}
    \cup {ErasingEndResult(o, v) : o \in DocIds, v \in Props}
    \cup {SetActive(State, sel) : sel \in Selections}
    \cup {DiscardActiveObject(State)}
    \cup {RestoreLoadResult(i, ok) : i \in 1..Len(loading), ok \in BOOLEAN}
    \cup (IF microtasks # <<>> THEN {MicrotaskResult} ELSE {})

\* C34: undo(), redo(), clearHistory(), clearCanvas() and the object-added,
\* object-removed and selection notifications never change the
\* transient-operation flag; object:moving sets it and only object:modified
\* clears it; and while it is set no operation captures, across an undo()
\* or redo() and its restore as well.
C34_TransientFlagFrame ==
    /\ \A r \in FrameOutcomes :
           /\ r.historyIsMoving = historyIsMoving
           /\ historyIsMoving => Appends(r.trace) = 0
    /\ \A o \in DocIds : \A v \in Props :
           /\ MovingResult(o, v).historyIsMoving
           /\ Appends(MovingResult(o, v).trace) = 0
           /\ ~ModifiedResult(o, v).historyIsMoving

\* An undo() made in the middle of a drag: its restore re-adds an object,
\* the flag of the drag stays set and nothing is captured.
C34_Witness ==
    /\ historyIsMoving
    /\ loading # <<>>
    /\ Head(loading).op = "undo"
    /\ LET r == RestoreLoadResult(1, TRUE)
       IN /\ Raised(r.trace, "object:added") >= 1
          /\ Appends(r.trace) = 0
          /\ r.historyIsMoving
====
